---- MODULE Spec2Model ----
(***************************************************************************)
(* Model of the AWS ElastiCache Redis provider                             *)
(* (pkg/providers/aws/provider_redis.go) and of the custom metrics         *)
(* registry (pkg/resources/custom_metrics.go).                             *)
(*                                                                         *)
(* One reconcile tick (CreateRedis or DeleteRedis) is one action.  The     *)
(* failures of the calls a tick makes are inputs of the action (a fault    *)
(* record naming the call that fails); the remote replication groups, the  *)
(* PrometheusRule objects, the finalizer and the gauge registry are the    *)
(* state.  The variable last records what the most recent tick did: the    *)
(* calls it issued in order, what it observed and what it returned.        *)
(***************************************************************************)
EXTENDS Integers, Sequences, FiniteSets, TLC

VARIABLES
    strat,       \* the strategy blobs of the tier (ConfigManager.ReadStorageStrategy)
    rgs,         \* remote replication groups, by identifier
    finalizer,   \* the Redis CR carries DefaultFinalizer
    phase,       \* "active": the CR exists; "terminating": deletion requested; "gone"
    alerts,      \* identifiers whose PrometheusRule cro-aws-elasticache-<id> exists
    MetricVecs,  \* the process-wide gauge registry
    last,        \* record of the tick that has just returned
    createCalls, \* CreateReplicationGroup calls so far: issued, and accepted by the remote
    gauges,      \* the series of each gauge vector: labels -> value.  The tick
                 \* specifications abstract from gauge values and leave it alone;
                 \* MetricSpec follows it
    goroutines   \* the position of each goroutine inside SetMetric (ConcSpec)

vars == <<strat, rgs, finalizer, phase, alerts, MetricVecs, last, createCalls,
          gauges, goroutines>>

----------------------------------------------------------------------------
(* Bounds                                                                  *)

\* snapshots one cache node can have
MaxSnaps == 1
\* attempts of the listing poll (PollImmediate, 5 s interval, 5 min ceiling)
PollAttempts == 2
\* cap of the createCalls history counter
MaxCreateCalls == 2
\* pending service updates DescribeServiceUpdates can list
MaxUpdates == 1

(* Program constants                                                       *)

defaultNumCacheClusters == 2
defaultSnapshotRetention == 30
defaultCacheNodeType == "cache.t2.micro"
defaultEngineVersion == "3.2.10"
defaultDescription == "A Redis replication group"
defaultRedisMaintenanceMetricName == "cro_aws_elasticache_service_maintenance"
defaultRedisInfoMetricName == "cro_aws_elasticache_info"
defaultRedisAvailMetricName == "cro_aws_elasticache_available"

----------------------------------------------------------------------------
(* Values                                                                  *)

\* a nil *string / *bool, and a nil *int64
Nil == "nil"
NilInt == -1

\* BuildInfraNameFromObject: the name derived from the CR's identity
InfraName == "infra"
\* identifiers an operator can put into a strategy blob
CustomIds == {"custom", "other"}
Ids == {InfraName} \cup CustomIds

NodeTypes == {defaultCacheNodeType, "cache.m5.large"}
Retentions == {defaultSnapshotRetention, 7}
Statuses == {"creating", "available", "modifying", "deleting"}
NodeStatuses == {"creating", "available"}
Nodes == 1..defaultNumCacheClusters
MetricNames == {defaultRedisMaintenanceMetricName, defaultRedisInfoMetricName,
                defaultRedisAvailMetricName}

\* a remote replication group that does not exist
NoGroup == [present |-> FALSE, status |-> "absent", nodeType |-> Nil,
            retention |-> NilInt, ngStatus |-> "absent",
            nodes |-> [n \in Nodes |-> "absent"]]

\* what CreateReplicationGroup makes of a create request
NewGroup(cfg) ==
    [present |-> TRUE, status |-> "creating", nodeType |-> cfg.CacheNodeType,
     retention |-> cfg.SnapshotRetentionLimit, ngStatus |-> "creating",
     nodes |-> [n \in Nodes |-> "creating"]]

\* elasticache.CreateReplicationGroupInput as json.Unmarshal leaves it
CreateInput(s) ==
    [ReplicationGroupId |-> s.createId,
     CacheNodeType |-> s.nodeType,
     SnapshotRetentionLimit |-> s.retention,
     Engine |-> s.engine,
     EngineVersion |-> s.engineVersion,
     ReplicationGroupDescription |-> s.description,
     NumCacheClusters |-> s.numClusters,
     AutomaticFailoverEnabled |-> s.failover]

\* elasticache.DeleteReplicationGroupInput as json.Unmarshal leaves it
DeleteInput(s) ==
    [ReplicationGroupId |-> s.deleteId,
     RetainPrimaryCluster |-> Nil,
     FinalSnapshotIdentifier |-> s.finalSnapshot]

----------------------------------------------------------------------------
(* Errors, status messages, call records                                   *)

\* errorUtil.Wrap / Wrapf: wrapping a nil error gives nil (err is "non-nil")
Wrap(err) == err

\* a croType.StatusMessage: its fixed text and the status string formatted in
Msg(text) == [text |-> text, status |-> ""]
MsgS(text, status) == [text |-> text, status |-> status]
StatusEmpty == Msg("")

\* one call a tick issued: the API, the identifier it was about, the cache
\* node and snapshot (0 when it has none), and whether it succeeded
Call(api, id, node, snap, ok) ==
    [api |-> api, id |-> id, node |-> node, snap |-> snap, ok |-> ok]

\* *providers.RedisCluster: nil, or the primary endpoint of the group
NoCluster == [URI |-> Nil, Port |-> NilInt]
Endpoint(id) == [URI |-> id, Port |-> 6379]

\* the fault of a tick: the call that fails (at most one kind per tick)
NoFault == [at |-> "none", node |-> 0, snap |-> 0, n |-> 0]
Fault(at) == [at |-> at, node |-> 0, snap |-> 0, n |-> 0]
NodeFault(at, nd, sn) == [at |-> at, node |-> nd, snap |-> sn, n |-> 0]

----------------------------------------------------------------------------
(* Remote State Scanner                                                    *)

\* mutant: the first failed listing call is returned as the error
getReplicationGroups_NoRetry(groups, fails) ==
    IF fails >= 1
    THEN [rgs |-> {}, err |-> TRUE,
          calls |-> <<Call("DescribeReplicationGroups", "", 0, 0, FALSE)>>]
    ELSE [rgs |-> {id \in Ids : groups[id].present}, err |-> FALSE,
          calls |-> <<Call("DescribeReplicationGroups", "", 0, 0, TRUE)>>]

\* getReplicationGroups: poll DescribeReplicationGroups; a failed call is
\* "not done yet"; after PollAttempts failures the poll times out.
\* fails = the number of leading calls that fail.
getReplicationGroups(groups, fails) ==
    LET tried == IF fails >= PollAttempts THEN PollAttempts ELSE fails + 1
        calls == [i \in 1..tried |->
                    Call("DescribeReplicationGroups", "", 0, 0, i > fails)]
    IN  IF fails >= PollAttempts
        THEN [rgs |-> {}, err |-> TRUE, calls |-> calls]
        ELSE [rgs |-> {id \in Ids : groups[id].present}, err |-> FALSE,
              calls |-> calls]

----------------------------------------------------------------------------
(* Configuration Builder and Drift Detector                                *)

\* buildElasticacheCreateStrategy (the name lookup has succeeded)
buildElasticacheCreateStrategy(ec) ==
    [ec EXCEPT
        !.AutomaticFailoverEnabled = "true",
        !.Engine = "redis",
        !.CacheNodeType = IF @ = Nil THEN defaultCacheNodeType ELSE @,
        !.ReplicationGroupDescription = IF @ = Nil THEN defaultDescription ELSE @,
        !.EngineVersion = IF @ = Nil THEN defaultEngineVersion ELSE @,
        !.NumCacheClusters = IF @ = NilInt THEN defaultNumCacheClusters ELSE @,
        !.SnapshotRetentionLimit = IF @ = NilInt THEN defaultSnapshotRetention ELSE @,
        !.ReplicationGroupId = IF @ = Nil THEN InfraName ELSE @]

\* buildElasticacheDeleteConfig (both name lookups have succeeded): the pair
\* of the create config and the delete config as the function leaves them
buildElasticacheDeleteConfig(ec, dc) ==
    LET ec1 == IF dc.ReplicationGroupId = Nil /\ ec.ReplicationGroupId = Nil
               THEN [ec EXCEPT !.ReplicationGroupId = InfraName]
               ELSE ec
        dc1 == IF dc.ReplicationGroupId = Nil
               THEN [dc EXCEPT !.ReplicationGroupId = ec1.ReplicationGroupId]
               ELSE dc
        dc2 == IF dc1.RetainPrimaryCluster = Nil
               THEN [dc1 EXCEPT !.RetainPrimaryCluster = "false"]
               ELSE dc1
        dc3 == IF dc2.FinalSnapshotIdentifier = ""
               THEN [dc2 EXCEPT !.FinalSnapshotIdentifier = "infra-timestamp"]
               ELSE dc2
    IN  [create |-> ec1, delete |-> dc3]

\* no modify request
NoModify == [isNil |-> TRUE, ReplicationGroupId |-> Nil, CacheNodeType |-> Nil,
             SnapshotRetentionLimit |-> NilInt]

\* mutant: a modify request carries both fields as soon as one differs
buildElasticacheUpdateStrategy_AllFields(ec, foundId, found) ==
    IF ec.CacheNodeType # found.nodeType \/ ec.SnapshotRetentionLimit # found.retention
    THEN [isNil |-> FALSE, ReplicationGroupId |-> foundId,
          CacheNodeType |-> ec.CacheNodeType,
          SnapshotRetentionLimit |-> ec.SnapshotRetentionLimit]
    ELSE NoModify

\* buildElasticacheUpdateStrategy: foundId is the identifier of the found
\* group, found its record
buildElasticacheUpdateStrategy(ec, foundId, found) ==
    LET typeDiffers == ec.CacheNodeType # found.nodeType
        retDiffers == ec.SnapshotRetentionLimit # found.retention
    IN  IF typeDiffers \/ retDiffers
        THEN [isNil |-> FALSE,
              ReplicationGroupId |-> foundId,
              CacheNodeType |-> IF typeDiffers THEN ec.CacheNodeType ELSE Nil,
              SnapshotRetentionLimit |->
                  IF retDiffers THEN ec.SnapshotRetentionLimit ELSE NilInt]
        ELSE NoModify

----------------------------------------------------------------------------
(* Metrics registry                                                        *)

\* a name that has no gauge vector in MetricVecs
Unregistered == [registered |-> FALSE, keys |-> {}]

\* SetMetric: a registered vector is looked up with the labels (With panics
\* when the label names differ from the vector's); an unregistered name is
\* registered with the label names of this call and its value is not set.
\* Gives the registry and what the call did.
SetMetric(mv, name, labels) ==
    IF mv[name].registered
    THEN [mv |-> mv,
          effect |-> IF mv[name].keys = labels THEN "set" ELSE "panic"]
    ELSE [mv |-> [mv EXCEPT ![name] = [registered |-> TRUE, keys |-> labels]],
          effect |-> "registered"]

\* the label names of buildRedisGenericMetricLabels / buildRedisInfoMetricLables
GenericLabels == {"clusterID", "resourceID", "namespace", "instanceID"}
InfoLabels == GenericLabels \cup {"status"}
\* the label names setRedisServiceMaintenanceMetric gives one service update
MaintenanceLabels ==
    {"clusterID", "AutoUpdateAfterRecommendedApplyByDate", "Engine",
     "EstimatedUpdateTime", "ServiceUpdateDescription", "ServiceUpdateEndDate",
     "ServiceUpdateName", "ServiceUpdateRecommendedApplyByDate",
     "ServiceUpdateReleaseDate", "ServiceUpdateSeverity", "ServiceUpdateStatus",
     "ServiceUpdateType"}

----------------------------------------------------------------------------
(* The running tick                                                        *)

\* The context of a tick under way: the calls issued so far, the state as
\* the tick has changed it so far, its locals and, once done, its result.
Start(in) ==
    [done |-> FALSE, panic |-> FALSE, calls |-> <<>>,
     msg |-> StatusEmpty, err |-> FALSE, cluster |-> NoCluster,
     rgs |-> rgs, alerts |-> alerts, mv |-> MetricVecs, finalizer |-> finalizer,
     ec |-> CreateInput(strat), dc |-> DeleteInput(strat),
     listed |-> FALSE, listing |-> {}, found |-> FALSE, foundId |-> Nil,
     foundCache |-> NoGroup, update |-> NoModify, driftChecked |-> FALSE,
     tagging |-> FALSE, snaps |-> [n \in Nodes |-> 0], deleteAnswer |-> "none"]

Log(c, call) == [c EXCEPT !.calls = Append(@, call)]
Ret(c, msg, err) == [c EXCEPT !.done = TRUE, !.msg = msg, !.err = err]
RetCluster(c, cluster, msg) ==
    [c EXCEPT !.done = TRUE, !.msg = msg, !.err = FALSE, !.cluster = cluster]
Panic(c) == [c EXCEPT !.done = TRUE, !.panic = TRUE]

\* one SetMetric call of the tick: the registry is updated and the call logged
DoSetMetric(c, name, labels) ==
    LET r == SetMetric(c.mv, name, labels)
        c1 == Log([c EXCEPT !.mv = r.mv], Call("SetMetric", name, 0, 0, r.effect # "panic"))
    IN  IF r.effect = "panic" THEN Panic(c1) ELSE c1

\* resources.GetClusterID at one of its call sites; fails when the fault names it
GetClusterID(c, in, site, node) ==
    Log(c, Call("GetClusterID", site, node, 0,
                ~(in.fault.at = site /\ in.fault.node = node)))

LastOk(c) == c.calls[Len(c.calls)].ok

----------------------------------------------------------------------------
(* Create path                                                             *)

\* mutant: the error of CreateFinalizer is ignored
CreateRedisPrologue_IgnoresFinalizerError(c, in) ==
    LET c1 == IF in.fault.at = "finalizer"
              THEN Log(c, Call("CreateFinalizer", "", 0, 0, FALSE))
              ELSE Log([c EXCEPT !.finalizer = TRUE],
                       Call("CreateFinalizer", "", 0, 0, TRUE))
        c2 == Log(c1, Call("ReadStorageStrategy", "", 0, 0, TRUE))
    IN  IF in.fault.at = "config"
        THEN Ret(Log(c1, Call("ReadStorageStrategy", "", 0, 0, FALSE)),
                 Msg("failed to retrieve aws elasticache cluster config"), Wrap(TRUE))
        ELSE IF in.fault.at = "creds"
        THEN Ret(Log(c2, Call("ReconcileProviderCredentials", "", 0, 0, FALSE)),
                 Msg("failed to reconcile elasticache credentials"), Wrap(TRUE))
        ELSE Log(c2, Call("ReconcileProviderCredentials", "", 0, 0, TRUE))

\* CreateRedis up to the call of createElasticacheCluster
CreateRedisPrologue(c, in) ==
    IF in.fault.at = "finalizer"
    THEN Ret(Log(c, Call("CreateFinalizer", "", 0, 0, FALSE)),
             Msg("failed to set finalizer"), TRUE)
    ELSE LET c1 == Log([c EXCEPT !.finalizer = TRUE],
                       Call("CreateFinalizer", "", 0, 0, TRUE))
             c2 == Log(c1, Call("ReadStorageStrategy", "", 0, 0, TRUE))
         IN  IF in.fault.at = "config"
             THEN Ret(Log(c1, Call("ReadStorageStrategy", "", 0, 0, FALSE)),
                      Msg("failed to retrieve aws elasticache cluster config"), Wrap(TRUE))
             ELSE IF in.fault.at = "creds"
             THEN Ret(Log(c2, Call("ReconcileProviderCredentials", "", 0, 0, FALSE)),
                      Msg("failed to reconcile elasticache credentials"), Wrap(TRUE))
             ELSE Log(c2, Call("ReconcileProviderCredentials", "", 0, 0, TRUE))

\* createElasticacheCluster: the listing
CreateList(c, in) ==
    IF c.done THEN c ELSE
    LET r == getReplicationGroups(c.rgs, IF in.fault.at = "list" THEN in.fault.n ELSE 0)
        c1 == [c EXCEPT !.calls = @ \o r.calls]
    IN  IF r.err
        THEN Ret(c1, Msg("error getting replication groups"), Wrap(TRUE))
        ELSE [c1 EXCEPT !.listed = TRUE, !.listing = r.rgs]

\* createElasticacheCluster: build the create config, look the group up
CreateFind(c, in) ==
    IF c.done THEN c ELSE
    IF in.fault.at = "infraName"
    THEN Ret(Log(c, Call("BuildInfraNameFromObject", "", 0, 0, FALSE)),
             Msg("failed to build and verify aws elasticache create strategy"), Wrap(TRUE))
    ELSE LET ec == buildElasticacheCreateStrategy(c.ec)
             id == ec.ReplicationGroupId
             c1 == Log(c, Call("BuildInfraNameFromObject", "", 0, 0, TRUE))
         IN  IF id \in c.listing
             THEN [c1 EXCEPT !.ec = ec, !.found = TRUE, !.foundId = id,
                             !.foundCache = c.rgs[id]]
             ELSE [c1 EXCEPT !.ec = ec]

\* mutant: the create call is issued whether or not the group was found
CreateIfAbsent_Always(c, in) ==
    IF c.done THEN c ELSE
    LET id == c.ec.ReplicationGroupId IN
    IF in.fault.at = "createRG"
    THEN Ret(Log(c, Call("CreateReplicationGroup", id, 0, 0, FALSE)),
             Msg("error creating elasticache cluster"), Wrap(TRUE))
    ELSE Ret(Log([c EXCEPT !.rgs[id] = NewGroup(c.ec)],
                 Call("CreateReplicationGroup", id, 0, 0, TRUE)),
             Msg("started elasticache provision"), FALSE)

\* createElasticacheCluster: create the group when it was not found
CreateIfAbsent(c, in) ==
    IF c.done \/ c.found THEN c ELSE
    LET id == c.ec.ReplicationGroupId IN
    IF in.fault.at = "createRG"
    THEN Ret(Log(c, Call("CreateReplicationGroup", id, 0, 0, FALSE)),
             Msg("error creating elasticache cluster"), Wrap(TRUE))
    ELSE Ret(Log([c EXCEPT !.rgs[id] = NewGroup(c.ec)],
                 Call("CreateReplicationGroup", id, 0, 0, TRUE)),
             Msg("started elasticache provision"), FALSE)

\* setRedisServiceMaintenanceMetric: one SetMetric per pending service update
RECURSIVE MaintenanceMetrics(_, _)
MaintenanceMetrics(c, k) ==
    IF k = 0 \/ c.done THEN c
    ELSE MaintenanceMetrics(
             DoSetMetric(c, defaultRedisMaintenanceMetricName, MaintenanceLabels),
             k - 1)

setRedisServiceMaintenanceMetric(c, in) ==
    IF c.done THEN c ELSE
    LET c1 == GetClusterID(c, in, "clusterID1", 0) IN
    IF ~LastOk(c1)
    THEN Ret(c1, Msg("error creating the elasticache service maintenance metrics"), Wrap(TRUE))
    ELSE IF in.fault.at = "serviceUpdates"
    THEN Ret(Log(c1, Call("DescribeServiceUpdates", "", 0, 0, FALSE)),
             Msg("error creating the elasticache service maintenance metrics"), Wrap(TRUE))
    ELSE MaintenanceMetrics(Log(c1, Call("DescribeServiceUpdates", "", 0, 0, TRUE)),
                            in.updates)

\* exposeRedisMetrics, called by both paths
exposeRedisMetrics(c, in) ==
    IF c.done THEN c ELSE
    LET c1 == GetClusterID(c, in, "clusterID2", 0) IN
    IF ~LastOk(c1)
    THEN Ret(c1, Msg("failed to set metric"), Wrap(TRUE))
    ELSE LET c2 == DoSetMetric(c1, defaultRedisInfoMetricName, InfoLabels)
         IN  IF c2.done THEN c2
             ELSE DoSetMetric(c2, defaultRedisAvailMetricName, GenericLabels)

\* mutant: the status of the found group is not checked
CreateInProgress_NoCheck(c, in) == c

\* createElasticacheCluster: the group is not available yet
CreateInProgress(c, in) ==
    IF c.done THEN c ELSE
    IF c.foundCache.status # "available"
    THEN Ret(c, MsgS("createReplicationGroup() in progress, current aws elasticache status is",
                     c.foundCache.status), FALSE)
    ELSE c

\* CreateElastiCacheAvailabilityAlert, after the cluster id lookup before it
CreateElastiCacheAvailabilityAlert(c, in) ==
    IF c.done THEN c ELSE
    LET c1 == GetClusterID(c, in, "clusterID3", 0) IN
    IF ~LastOk(c1)
    THEN Ret(c1, Msg("failed to retrieve cluster identifier"), Wrap(TRUE))
    ELSE IF in.fault.at = "alertCreate"
    THEN Ret(Log(c1, Call("Client.Create", c.foundId, 0, 0, FALSE)),
             Msg("error creating the elasticache PrometheusRule"), Wrap(TRUE))
    ELSE \* an AlreadyExists error of Client.Create is not an error
         Log([c1 EXCEPT !.alerts = @ \cup {c.foundId}],
             Call("Client.Create", c.foundId, 0, 0, c.foundId \notin c.alerts))

\* mutant: the tick goes on to the tagging after the modify call
CreateModify_Continues(c, in) ==
    IF c.done THEN c ELSE
    LET ec == buildElasticacheUpdateStrategy(c.ec, c.foundId, c.foundCache)
        c0 == [c EXCEPT !.update = ec, !.driftChecked = TRUE]
    IN
    IF ec.isNil THEN c0
    ELSE Log([c0 EXCEPT !.rgs[ec.ReplicationGroupId].status = "modifying"],
             Call("ModifyReplicationGroup", ec.ReplicationGroupId, 0, 0, TRUE))

\* createElasticacheCluster: modify the group when the strategy differs
CreateModify(c, in) ==
    IF c.done THEN c ELSE
    LET ec == buildElasticacheUpdateStrategy(c.ec, c.foundId, c.foundCache)
        c0 == [c EXCEPT !.update = ec, !.driftChecked = TRUE]
    IN
    IF ec.isNil THEN c0
    ELSE IF in.fault.at = "modify"
    THEN Ret(Log(c0, Call("ModifyReplicationGroup", ec.ReplicationGroupId, 0, 0, FALSE)),
             Msg("failed to modify elasticache cluster"), Wrap(TRUE))
    ELSE Ret(Log([c0 EXCEPT !.rgs[ec.ReplicationGroupId] =
                      [@ EXCEPT !.status = "modifying",
                                !.nodeType = IF ec.CacheNodeType = Nil THEN @
                                             ELSE ec.CacheNodeType,
                                !.retention = IF ec.SnapshotRetentionLimit = NilInt THEN @
                                              ELSE ec.SnapshotRetentionLimit]],
                 Call("ModifyReplicationGroup", ec.ReplicationGroupId, 0, 0, TRUE)),
             MsgS("changes detected, modifyDBInstance() in progress, current aws elasticache status is",
                  c.foundCache.status), FALSE)

----------------------------------------------------------------------------
(* Tagging Subsystem                                                       *)

FaultAt(in, at, node, snap) ==
    in.fault.at = at /\ in.fault.node = node /\ in.fault.snap = snap

\* the result of TagElasticacheNode: the context, its message and its error
TagResult(c, msg, err) == [c |-> c, msg |-> msg, err |-> err]

\* TagElasticacheNode: tag the snapshots k..count of a node
RECURSIVE TagSnapshots(_, _, _, _, _)
TagSnapshots(c, in, node, k, count) ==
    IF k > count
    THEN TagResult(c, Msg("successfully created and tagged"), FALSE)
    ELSE IF FaultAt(in, "snapTag", node, k)
    THEN TagResult(Log(c, Call("AddTagsToResource", c.foundId, node, k, FALSE)),
                   Msg("failed to add tags to aws elasticache snapshot"), TRUE)
    ELSE TagSnapshots(Log(c, Call("AddTagsToResource", c.foundId, node, k, TRUE)),
                      in, node, k + 1, count)

\* mutant: the status of the cache node is not looked at
NodeIsAvailable_Unchecked(c, node) == TRUE

\* TagElasticacheNode: the DescribeCacheClusters answer says the node is available
NodeIsAvailable(c, node) == c.rgs[c.foundId].nodes[node] = "available"

\* TagElasticacheNode for the cache node `node` of the found group
TagElasticacheNode(c, in, node) ==
    IF FaultAt(in, "describeCC", node, 0)
    THEN TagResult(Log(c, Call("DescribeCacheClusters", c.foundId, node, 0, FALSE)),
                   Msg("failed to get cache cluster output"), Wrap(TRUE))
    ELSE
    LET c1 == Log(c, Call("DescribeCacheClusters", c.foundId, node, 0, TRUE))
        clusterStatus == c.rgs[c.foundId].nodes[node]
    IN
    IF ~NodeIsAvailable(c, node)
    THEN \* err is the nil error of the describe call: wrapping it gives nil
         TagResult(c1, MsgS("status is, skipping adding tags", clusterStatus), Wrap(FALSE))
    ELSE IF FaultAt(in, "identity", node, 0)
    THEN TagResult(Log(c1, Call("GetCallerIdentity", "", node, 0, FALSE)),
                   Msg("failed to get account identity"), Wrap(TRUE))
    ELSE
    LET c2 == GetClusterID(Log(c1, Call("GetCallerIdentity", "", node, 0, TRUE)),
                           in, "clusterIDTag", node)
    IN
    IF ~LastOk(c2)
    THEN TagResult(c2, Msg("failed to get cluster id"), Wrap(TRUE))
    ELSE IF FaultAt(in, "addTags", node, 0)
    THEN TagResult(Log(c2, Call("AddTagsToResource", c.foundId, node, 0, FALSE)),
                   Msg("failed to add tags to aws elasticache :"), TRUE)
    ELSE
    LET c3 == Log(c2, Call("AddTagsToResource", c.foundId, node, 0, TRUE)) IN
    \* the error of DescribeSnapshots is dropped: an output that comes with the
    \* error lists nothing, and a nil output is dereferenced
    IF FaultAt(in, "describeSnapshots", node, 0)
    THEN TagSnapshots(Log(c3, Call("DescribeSnapshots", c.foundId, node, 0, FALSE)),
                      in, node, 1, 0)
    ELSE IF FaultAt(in, "describeSnapshotsNil", node, 0)
    THEN TagResult(Panic(Log(c3, Call("DescribeSnapshots", c.foundId, node, 0, FALSE))),
                   StatusEmpty, FALSE)
    ELSE TagSnapshots(Log(c3, Call("DescribeSnapshots", c.foundId, node, 0, TRUE)),
                      in, node, 1, in.snaps[node])

\* createElasticacheCluster: the loop over the members of the first node group
RECURSIVE TagNodes(_, _, _)
TagNodes(c, in, node) ==
    IF node > defaultNumCacheClusters THEN c
    ELSE LET r == TagElasticacheNode(c, in, node)
         IN  IF r.c.done THEN r.c
             ELSE IF r.err
             THEN Ret(r.c, MsgS("failed to add tags to elasticache:", r.msg.text), Wrap(TRUE))
             ELSE TagNodes(r.c, in, node + 1)

\* mutant: the status of the first node group is not looked at
NodeGroupIsAvailable_Unchecked(c) == TRUE

\* mutant: the first node group is never taken to be available
NodeGroupIsAvailable_Never(c) == FALSE

\* createElasticacheCluster: the first node group of the found group is available
NodeGroupIsAvailable(c) == c.foundCache.ngStatus = "available"

\* createElasticacheCluster: from the node group check to the final return
CreateTag(c, in) ==
    IF c.done THEN c ELSE
    IF ~NodeGroupIsAvailable(c)
    THEN Ret(c, MsgS("cache node status not available, current status:",
                     c.foundCache.status), FALSE)
    ELSE LET c1 == TagNodes([c EXCEPT !.tagging = TRUE, !.snaps = in.snaps], in, 1)
         IN  IF c1.done THEN c1
             ELSE RetCluster(c1, Endpoint(c.foundId),
                             MsgS("successfully created and tagged, aws elasticache status is",
                                  c.foundCache.status))

\* createElasticacheCluster: each step works on the value the step before it
\* has left
createElasticacheCluster(c, in) ==
    CHOOSE r \in
        {CreateTag(c8, in) : c8 \in
        {CreateModify(c7, in) : c7 \in
        {CreateElastiCacheAvailabilityAlert(c6, in) : c6 \in
        {CreateInProgress(c5, in) : c5 \in
        {exposeRedisMetrics(c4, in) : c4 \in
        {setRedisServiceMaintenanceMetric(c3, in) : c3 \in
        {CreateIfAbsent(c2, in) : c2 \in
        {CreateFind(c1, in) : c1 \in
        {CreateList(c0, in) : c0 \in {c}}}}}}}}}} : TRUE

\* CreateRedis, as a function of the state and the tick's inputs
CreateRedisRun(in) == createElasticacheCluster(CreateRedisPrologue(Start(in), in), in)

----------------------------------------------------------------------------
(* Delete path                                                             *)

\* DeleteRedis up to the call of deleteElasticacheCluster
DeleteRedisPrologue(c, in) ==
    IF in.fault.at = "config"
    THEN Ret(Log(c, Call("ReadStorageStrategy", "", 0, 0, FALSE)),
             Msg("failed to retrieve aws elasticache config for instance"), Wrap(TRUE))
    ELSE LET c1 == Log(c, Call("ReadStorageStrategy", "", 0, 0, TRUE)) IN
    IF in.fault.at = "creds"
    THEN Ret(Log(c1, Call("ReconcileProviderCredentials", "", 0, 0, FALSE)),
             Msg("failed to reconcile aws provider credentials"), Wrap(TRUE))
    ELSE Log(c1, Call("ReconcileProviderCredentials", "", 0, 0, TRUE))

\* deleteElasticacheCluster: the listing
DeleteList(c, in) ==
    IF c.done THEN c ELSE
    LET r == getReplicationGroups(c.rgs, IF in.fault.at = "list" THEN in.fault.n ELSE 0)
        c1 == [c EXCEPT !.calls = @ \o r.calls]
    IN  IF r.err
        THEN Ret(c1, Msg("error getting replication groups"), TRUE)
        ELSE [c1 EXCEPT !.listed = TRUE, !.listing = r.rgs]

\* deleteElasticacheCluster: build the delete config, look the group up by
\* the identifier of the create config; comparing with a nil identifier
\* dereferences nil as soon as the listing has an entry
DeleteFind(c, in) ==
    IF c.done THEN c ELSE
    IF in.fault.at = "infraName"
    THEN Ret(Log(c, Call("BuildInfraNameFromObject", "", 0, 0, FALSE)),
             Msg("failed to verify aws rds instance configuration"), Wrap(TRUE))
    ELSE IF in.fault.at = "timestampedName"
    THEN Ret(Log(Log(c, Call("BuildInfraNameFromObject", "", 0, 0, TRUE)),
                 Call("buildTimestampedInfraNameFromObject", "", 0, 0, FALSE)),
             Msg("failed to verify aws rds instance configuration"), Wrap(TRUE))
    ELSE LET b == buildElasticacheDeleteConfig(c.ec, c.dc)
             id == b.create.ReplicationGroupId
             c0 == Log(Log(c, Call("BuildInfraNameFromObject", "", 0, 0, TRUE)),
                       Call("buildTimestampedInfraNameFromObject", "", 0, 0, TRUE))
             c1 == [c0 EXCEPT !.ec = b.create, !.dc = b.delete]
         IN  IF id = Nil
             THEN IF c.listing # {} THEN Panic(c1) ELSE c1
             ELSE IF id \in c.listing
             THEN [c1 EXCEPT !.found = TRUE, !.foundId = id, !.foundCache = c.rgs[id]]
             ELSE c1

\* mutant: delete-complete is reported without removing the finalizer
DeleteIfAbsent_KeepsFinalizer(c, in) ==
    IF c.done \/ c.found THEN c ELSE
    IF in.fault.at = "update"
    THEN Ret(Log(c, Call("Client.Update", "", 0, 0, FALSE)),
             Msg("failed to update instance as part of finalizer reconcile"), Wrap(TRUE))
    ELSE Ret(Log(c, Call("Client.Update", "", 0, 0, TRUE)), StatusEmpty, FALSE)

\* mutant: a failed update of the CR is not returned as an error
DeleteIfAbsent_IgnoresUpdateError(c, in) ==
    IF c.done \/ c.found THEN c ELSE
    IF in.fault.at = "update"
    THEN Ret(Log(c, Call("Client.Update", "", 0, 0, FALSE)), StatusEmpty, FALSE)
    ELSE Ret(Log([c EXCEPT !.finalizer = FALSE], Call("Client.Update", "", 0, 0, TRUE)),
             StatusEmpty, FALSE)

\* deleteElasticacheCluster: the group is gone, remove the finalizer
DeleteIfAbsent(c, in) ==
    IF c.done \/ c.found THEN c ELSE
    IF in.fault.at = "update"
    THEN \* the finalizer is removed from the object in memory, not persisted
         Ret(Log(c, Call("Client.Update", "", 0, 0, FALSE)),
             Msg("failed to update instance as part of finalizer reconcile"), Wrap(TRUE))
    ELSE Ret(Log([c EXCEPT !.finalizer = FALSE], Call("Client.Update", "", 0, 0, TRUE)),
             StatusEmpty, FALSE)

\* mutant: the status of the found group is not checked before the delete
DeleteInProgress_NoCheck(c, in) == c

\* deleteElasticacheCluster: the group is not available
DeleteInProgress(c, in) ==
    IF c.done THEN c ELSE
    IF c.foundCache.status # "available"
    THEN Ret(c, MsgS("delete detected, deleteReplicationGroup() in progress, current aws elasticache status is",
                     c.foundCache.status), FALSE)
    ELSE c

\* mutant: the alert rule is left alone before the delete call
DeleteElastiCacheAvailabilityAlert_Skipped(c, in) == c

\* DeleteElastiCacheAvailabilityAlert: get the rule, then delete it
DeleteElastiCacheAvailabilityAlert(c, in) ==
    IF c.done THEN c ELSE
    IF in.fault.at = "alertGet" \/ c.foundId \notin c.alerts
    THEN Ret(Log(c, Call("Client.Get", c.foundId, 0, 0, FALSE)),
             Msg("failed to delete elasticache alert"), Wrap(TRUE))
    ELSE LET c1 == Log(c, Call("Client.Get", c.foundId, 0, 0, TRUE)) IN
         IF in.fault.at = "alertDelete"
         THEN Ret(Log(c1, Call("Client.Delete", c.foundId, 0, 0, FALSE)),
                  Msg("failed to delete elasticache alert"), Wrap(TRUE))
         ELSE Log([c1 EXCEPT !.alerts = @ \ {c.foundId}],
                  Call("Client.Delete", c.foundId, 0, 0, TRUE))

\* what DeleteReplicationGroup answers for the group `id`: "ok", "notfound"
\* (the ReplicationGroupNotFoundFault code), "awsOther" (another AWS error
\* code) or "nonAws" (an error that is no awserr.Error)
DeleteAnswer(c, in, id) ==
    IF in.fault.at \in {"deleteNotFound", "deleteAwsOther", "deleteNonAws"}
    THEN CASE in.fault.at = "deleteNotFound" -> "notfound"
           [] in.fault.at = "deleteAwsOther" -> "awsOther"
           [] OTHER -> "nonAws"
    ELSE IF ~c.rgs[id].present THEN "notfound"
    ELSE IF c.rgs[id].status # "available" THEN "awsOther"
    ELSE "ok"

\* mutant: every error of the delete call is returned as an error
DeleteFailed_AnyError(answer) == answer # "ok"

\* is this answer of DeleteReplicationGroup returned as an error
DeleteFailed(answer) ==
    LET errNonNil == answer # "ok"
        isAwsErr == answer \in {"notfound", "awsOther"}
        notFound == answer = "notfound"
    IN  errNonNil /\ (~isAwsErr \/ ~notFound)

\* mutant: the finalizer is removed as soon as the delete call is issued
DeleteGroup_RemovesFinalizer(c, in) ==
    IF c.done THEN c ELSE
    LET id == c.dc.ReplicationGroupId
        answer == DeleteAnswer(c, in, id)
        c1 == Log([c EXCEPT !.rgs[id].status = "deleting", !.finalizer = FALSE],
                  Call("DeleteReplicationGroup", id, 0, 0, answer = "ok"))
    IN  Ret([c1 EXCEPT !.deleteAnswer = answer],
            Msg("delete detected, deleteReplicationGroup started"), FALSE)

\* deleteElasticacheCluster: issue the delete call
DeleteGroup(c, in) ==
    IF c.done THEN c ELSE
    LET id == c.dc.ReplicationGroupId
        answer == DeleteAnswer(c, in, id)
        remote == CASE answer = "ok" -> [c.rgs EXCEPT ![id].status = "deleting"]
                    [] answer = "notfound" -> [c.rgs EXCEPT ![id] = NoGroup]
                    [] OTHER -> c.rgs
        c1 == Log([c EXCEPT !.rgs = remote],
                  Call("DeleteReplicationGroup", id, 0, 0, answer = "ok"))
        c2 == [c1 EXCEPT !.deleteAnswer = answer]
    IN  IF DeleteFailed(answer)
        THEN Ret(c2, Msg("failed to delete elasticache cluster"), Wrap(TRUE))
        ELSE Ret(c2, Msg("delete detected, deleteReplicationGroup started"), FALSE)

\* deleteElasticacheCluster: each step works on the value the step before it
\* has left
deleteElasticacheCluster(c, in) ==
    CHOOSE r \in
        {DeleteGroup(c6, in) : c6 \in
        {DeleteElastiCacheAvailabilityAlert(c5, in) : c5 \in
        {DeleteInProgress(c4, in) : c4 \in
        {exposeRedisMetrics(c3, in) : c3 \in
        {DeleteIfAbsent(c2, in) : c2 \in
        {DeleteFind(c1, in) : c1 \in
        {DeleteList(c0, in) : c0 \in {c}}}}}}}} : TRUE

\* DeleteRedis, as a function of the state and the tick's inputs
DeleteRedisRun(in) == deleteElasticacheCluster(DeleteRedisPrologue(Start(in), in), in)

----------------------------------------------------------------------------
(* Inputs of a tick                                                        *)

CreateFaults ==
    {NoFault}
    \cup {Fault(at) : at \in {"finalizer", "config", "creds", "infraName", "createRG",
                              "clusterID1", "serviceUpdates", "clusterID2",
                              "clusterID3", "alertCreate", "modify"}}
    \cup {[at |-> "list", node |-> 0, snap |-> 0, n |-> k] : k \in 1..PollAttempts}
    \cup {NodeFault(at, nd, 0) :
            at \in {"describeCC", "identity", "clusterIDTag", "addTags",
                    "describeSnapshots", "describeSnapshotsNil"}, nd \in Nodes}
    \cup {NodeFault("snapTag", nd, sn) : nd \in Nodes, sn \in 1..MaxSnaps}

DeleteFaults ==
    {NoFault}
    \cup {Fault(at) : at \in {"config", "creds", "infraName", "timestampedName",
                              "update", "clusterID2", "alertGet", "alertDelete",
                              "deleteNotFound", "deleteAwsOther", "deleteNonAws"}}
    \cup {[at |-> "list", node |-> 0, snap |-> 0, n |-> k] : k \in 1..PollAttempts}

\* the faults of the tagging step
TagFaults == {f \in CreateFaults : f.node # 0}

\* the inputs of a create tick: the fault, the snapshots each cache node has
\* and the number of pending service updates
CreateInputs ==
    [fault : {NoFault}, snaps : [Nodes -> 0..MaxSnaps], updates : 0..MaxUpdates]
    \cup [fault : TagFaults, snaps : [Nodes -> 0..MaxSnaps], updates : {0}]
    \cup [fault : CreateFaults \ TagFaults, snaps : {[n \in Nodes |-> 0]}, updates : {0}]

DeleteInputs ==
    [fault : DeleteFaults, snaps : {[n \in Nodes |-> 0]}, updates : {0}]

----------------------------------------------------------------------------
(* State machine                                                           *)

NoTick == [op |-> "none", calls |-> <<>>, msg |-> StatusEmpty, err |-> FALSE,
           cluster |-> NoCluster, panic |-> FALSE, listed |-> FALSE,
           found |-> FALSE, foundId |-> Nil, foundCache |-> NoGroup,
           ec |-> CreateInput(strat), dc |-> DeleteInput(strat),
           update |-> NoModify, driftChecked |-> FALSE, tagging |-> FALSE,
           snaps |-> [n \in Nodes |-> 0], deleteAnswer |-> "none",
           before |-> [id \in Ids |-> NoGroup], alertsBefore |-> {},
           hadFinalizer |-> FALSE, cancelAt |-> 0]

\* what a finished tick leaves in last
TickRecord(op, c) ==
    [op |-> op, calls |-> c.calls, msg |-> c.msg, err |-> c.err,
     cluster |-> c.cluster, panic |-> c.panic, listed |-> c.listed,
     found |-> c.found, foundId |-> c.foundId, foundCache |-> c.foundCache,
     ec |-> c.ec, dc |-> c.dc, update |-> c.update,
     driftChecked |-> c.driftChecked, tagging |-> c.tagging, snaps |-> c.snaps,
     deleteAnswer |-> c.deleteAnswer,
     before |-> rgs, alertsBefore |-> alerts, hadFinalizer |-> finalizer,
     cancelAt |-> 0]

\* the strategies of the tier: the node type and the snapshot retention may
\* be given, every other field is left to the defaults
Strategies ==
    [createId : {Nil}, deleteId : {Nil},
     nodeType : {Nil, "cache.m5.large"}, retention : {NilInt, 7},
     engine : {Nil}, engineVersion : {Nil}, description : {Nil},
     numClusters : {NilInt}, failover : {Nil}, finalSnapshot : {Nil}]

\* the goroutines that can be inside SetMetric at the same time, one per
\* reconciled identity
Goroutines == {"g1", "g2"}
\* a goroutine that is not inside SetMetric
NotRunning == [pc |-> "idle", call |-> 0]
\* StartGaugeVector: no vector, so no series
NoGauges == [m \in MetricNames |-> <<>>]

\* a replication group an earlier run of the operator has left behind
LeftGroups ==
    [present : {TRUE}, status : {"creating", "available"}, nodeType : NodeTypes,
     retention : Retentions, ngStatus : {"creating"},
     nodes : {[n \in Nodes |-> "creating"]}]

Init ==
    /\ strat \in Strategies
    /\ \E g \in {NoGroup} \cup LeftGroups :
          /\ rgs = [id \in Ids |-> IF id = InfraName THEN g ELSE NoGroup]
          /\ alerts \in IF g.present THEN {{}, {InfraName}} ELSE {{}}
          /\ finalizer = g.present
    /\ phase = "active"
    /\ MetricVecs = [m \in MetricNames |-> Unregistered]
    /\ last = [NoTick EXCEPT !.ec = CreateInput(strat), !.dc = DeleteInput(strat)]
    /\ createCalls = [issued |-> 0, accepted |-> 0]
    /\ gauges = NoGauges
    /\ goroutines = [g \in Goroutines |-> NotRunning]

\* the calls of an API among calls, and those of them that succeeded
Issued(calls, api) == Cardinality({i \in 1..Len(calls) : calls[i].api = api})
Succeeded(calls, api) ==
    Cardinality({i \in 1..Len(calls) : calls[i].api = api /\ calls[i].ok})

\* a history counter, which stops counting at MaxCreateCalls
Count(n, more) == IF n + more > MaxCreateCalls THEN MaxCreateCalls ELSE n + more

\* one create tick whose inputs are drawn from inputs
CreateRedisWith(inputs) ==
    /\ phase = "active"
    /\ last.op = "none"
    /\ \E in \in inputs : \E c \in {CreateRedisRun(in)} :
          /\ rgs' = c.rgs
          /\ alerts' = c.alerts
          /\ MetricVecs' = c.mv
          /\ finalizer' = c.finalizer
          /\ last' = TickRecord("create", c)
          /\ createCalls' =
                 [issued |-> Count(createCalls.issued,
                                   Issued(c.calls, "CreateReplicationGroup")),
                  accepted |-> Count(createCalls.accepted,
                                     Succeeded(c.calls, "CreateReplicationGroup"))]
    /\ UNCHANGED <<strat, phase, gauges, goroutines>>

\* CreateRedis: one create tick
CreateRedis == CreateRedisWith(CreateInputs)

\* one delete tick whose inputs are drawn from inputs
DeleteRedisWith(inputs) ==
    /\ phase = "terminating"
    /\ last.op = "none"
    /\ \E in \in inputs : \E c \in {DeleteRedisRun(in)} :
          /\ rgs' = c.rgs
          /\ alerts' = c.alerts
          /\ MetricVecs' = c.mv
          /\ finalizer' = c.finalizer
          /\ last' = TickRecord("delete", c)
    /\ UNCHANGED <<strat, phase, createCalls, gauges, goroutines>>

\* DeleteRedis: one delete tick
DeleteRedis == DeleteRedisWith(DeleteInputs)

\* the record of the last tick is dropped by every step that is no tick
Idle == last' = [NoTick EXCEPT !.ec = CreateInput(strat), !.dc = DeleteInput(strat)]

\* the caller takes the result of the tick and requeues the CR
Requeue ==
    /\ last.op # "none"
    /\ Idle
    /\ UNCHANGED <<strat, rgs, finalizer, phase, alerts, MetricVecs, createCalls, gauges, goroutines>>

\* the remote system finishes what it is doing to the group id
RemoteProgress(id) ==
    /\ rgs[id].present
    /\ rgs[id].status \in {"creating", "modifying", "deleting"}
    /\ rgs' = [rgs EXCEPT ![id] = IF @.status = "deleting" THEN NoGroup
                                  ELSE [@ EXCEPT !.status = "available"]]
    /\ Idle
    /\ UNCHANGED <<strat, finalizer, phase, alerts, MetricVecs, createCalls, gauges, goroutines>>

\* the first node group of an available group becomes available
NodeGroupAvailable(id) ==
    /\ rgs[id].present
    /\ rgs[id].status = "available"
    /\ rgs[id].ngStatus # "available"
    /\ rgs' = [rgs EXCEPT ![id].ngStatus = "available"]
    /\ Idle
    /\ UNCHANGED <<strat, finalizer, phase, alerts, MetricVecs, createCalls, gauges, goroutines>>

\* one cache node of an available group becomes available
NodeAvailable(id, n) ==
    /\ rgs[id].present
    /\ rgs[id].status = "available"
    /\ rgs[id].nodes[n] # "available"
    /\ rgs' = [rgs EXCEPT ![id].nodes[n] = "available"]
    /\ Idle
    /\ UNCHANGED <<strat, finalizer, phase, alerts, MetricVecs, createCalls, gauges, goroutines>>

\* the Redis CR is deleted: with a finalizer it stays, marked for deletion
MarkDeleted ==
    /\ phase = "active"
    /\ phase' = IF finalizer THEN "terminating" ELSE "gone"
    /\ Idle
    /\ UNCHANGED <<strat, rgs, finalizer, alerts, MetricVecs, createCalls, gauges, goroutines>>

\* a CR marked for deletion goes once its finalizer is removed
Collect ==
    /\ phase = "terminating"
    /\ ~finalizer
    /\ phase' = "gone"
    /\ Idle
    /\ UNCHANGED <<strat, rgs, finalizer, alerts, MetricVecs, createCalls, gauges, goroutines>>

Next ==
    \/ CreateRedis
    \/ DeleteRedis
    \/ Requeue
    \/ \E id \in Ids : RemoteProgress(id)
    \/ \E id \in Ids : NodeGroupAvailable(id)
    \/ \E id \in Ids, n \in Nodes : NodeAvailable(id, n)
    \/ MarkDeleted
    \/ Collect

Spec == Init /\ [][Next]_vars

----------------------------------------------------------------------------
(* Properties                                                              *)

\* the calls of an API the tick in last has issued
LastIssued(api) == Issued(last.calls, api)

\* no call of the tick in last has failed (a failed listing call that the
\* poll has retried is no failure of the tick)
LastCallsOk ==
    \A i \in 1..Len(last.calls) :
        last.calls[i].ok \/ last.calls[i].api = "DescribeReplicationGroups"

\* C1: a create tick issues CreateReplicationGroup only when its listing
\* does not contain the identifier of the create request, and then once; no
\* tick issues a create call after one has been accepted (only a create call
\* that failed is issued again, by a tick whose listing still lacks the
\* identifier), so the remote accepts at most one create call and at most
\* one remote group exists for the identity.
C1_IdempotentCreate ==
    /\ (last.op = "create" /\ LastIssued("CreateReplicationGroup") > 0) =>
          /\ LastIssued("CreateReplicationGroup") = 1
          /\ last.listed
          /\ ~last.found
          /\ ~last.before[last.ec.ReplicationGroupId].present
          /\ createCalls.accepted = Succeeded(last.calls, "CreateReplicationGroup")
    /\ createCalls.accepted <= 1
    /\ Cardinality({id \in Ids : rgs[id].present}) <= 1

\* C1 witness: a create tick that follows the accepted create call finds the
\* group and issues no create call
C1_Witness ==
    /\ last.op = "create"
    /\ last.found
    /\ createCalls.accepted = 1
    /\ LastIssued("CreateReplicationGroup") = 0

\* C2: a delete tick issues DeleteReplicationGroup (once) only when it has
\* found the group in the listing with status available; a tick that finds
\* the group absent or in another status issues no delete call, and one that
\* finds it in another status and whose metric refresh has succeeded returns
\* "delete in progress" with that status and a nil error.
C2_DeleteOnlyWhenAvailable ==
    last.op = "delete" =>
       /\ LastIssued("DeleteReplicationGroup") > 0 =>
             /\ LastIssued("DeleteReplicationGroup") = 1
             /\ last.found
             /\ last.foundCache.status = "available"
             /\ last.before[last.foundId].status = "available"
       /\ (last.found /\ last.foundCache.status # "available" /\ LastCallsOk) =>
             /\ last.msg = MsgS("delete detected, deleteReplicationGroup() in progress, current aws elasticache status is",
                                last.foundCache.status)
             /\ ~last.err

\* C2 witness: a delete tick finds the group in status deleting and reports
\* the delete in progress
C2_Witness ==
    /\ last.op = "delete"
    /\ last.found
    /\ last.foundCache.status = "deleting"
    /\ LastIssued("DeleteReplicationGroup") = 0
    /\ ~last.err

\* C3: the finalizer is removed only by a delete tick whose listing does not
\* contain the group (and the group does not exist); a tick that finds the
\* group, in any status, leaves the finalizer in place.
C3_FinalizerOnlyWhenAbsent ==
    [][/\ (finalizer /\ ~finalizer') =>
             /\ last'.op = "delete"
             /\ last'.listed
             /\ ~last'.found
             /\ ~rgs[last'.ec.ReplicationGroupId].present
       /\ (last'.op # "none" /\ last'.found) => (finalizer' = TRUE)]_vars

\* C3 witness: a delete tick has removed the finalizer
C3_Witness ==
    /\ last.op = "delete"
    /\ last.hadFinalizer
    /\ ~finalizer
    /\ ~last.found

\* C4: a delete tick that finds the group absent issues no remote delete
\* call and touches no alert rule; it updates the CR once and, when that
\* update succeeds, the finalizer is gone and the tick returns the empty
\* status with a nil error.  This holds whether or not an earlier delete tick
\* has already removed the finalizer.
C4_DeleteIdempotence ==
    (last.op = "delete" /\ last.listed /\ ~last.found /\ ~last.panic) =>
       /\ LastIssued("DeleteReplicationGroup") = 0
       /\ LastIssued("Client.Get") = 0
       /\ LastIssued("Client.Delete") = 0
       /\ alerts = last.alertsBefore
       /\ rgs = last.before
       /\ (last.calls # <<>> /\ last.calls[Len(last.calls)].api = "Client.Update"
             /\ LastCallsOk) =>
             /\ ~finalizer
             /\ last.msg = StatusEmpty
             /\ ~last.err

\* C4 witness: a delete tick repeated after the finalizer has been removed
\* returns the empty status again
C4_Witness ==
    /\ last.op = "delete"
    /\ ~last.hadFinalizer
    /\ ~last.found
    /\ last.listed
    /\ ~finalizer
    /\ last.msg = StatusEmpty
    /\ ~last.err

\* the AddTagsToResource calls of the last tick for a cache node (snap = 0)
\* or for one of its snapshots
TagCalls(node, snap) ==
    Cardinality({i \in 1..Len(last.calls) :
                    /\ last.calls[i].api = "AddTagsToResource"
                    /\ last.calls[i].node = node
                    /\ last.calls[i].snap = snap})

\* C5 as claimed: a create tick issues an AddTagsToResource call only when
\* every member of the first node group is available.
C5_TagOnlyWhenAllAvailable ==
    (last.op = "create" /\ LastIssued("AddTagsToResource") > 0) =>
        \A n \in Nodes : last.before[last.foundId].nodes[n] = "available"

\* C5 as amended: a create tick issues an AddTagsToResource call for a cache
\* node or for one of its snapshots only when the group and its first node
\* group are available and that cache node itself is available.
C5_TagOnlyAvailableNode ==
    last.op = "create" =>
        \A i \in 1..Len(last.calls) :
            last.calls[i].api = "AddTagsToResource" =>
                /\ last.found
                /\ last.foundCache.status = "available"
                /\ last.foundCache.ngStatus = "available"
                /\ last.before[last.foundId].nodes[last.calls[i].node] = "available"

\* C5 witness: the first cache node is tagged while the second one is not
\* available
C5_Witness ==
    /\ last.op = "create"
    /\ TagCalls(1, 0) = 1
    /\ last.before[last.foundId].nodes[1] = "available"
    /\ last.before[last.foundId].nodes[2] # "available"

\* C6 as claimed: a create tick that returns the endpoint with "successfully
\* created and tagged" and a nil error has found the group available with no
\* drift and every cache node available, and has issued exactly one
\* AddTagsToResource call for every cache node and for every snapshot of it.
C6_SuccessImpliesAllTagged ==
    (last.op = "create" /\ last.cluster # NoCluster) =>
        /\ ~last.err
        /\ last.msg = MsgS("successfully created and tagged, aws elasticache status is",
                           "available")
        /\ last.foundCache.status = "available"
        /\ last.driftChecked /\ last.update.isNil
        /\ \A n \in Nodes :
              /\ last.before[last.foundId].nodes[n] = "available"
              /\ TagCalls(n, 0) = 1
              /\ \A k \in 1..last.snaps[n] : TagCalls(n, k) = 1

\* C7: a create tick that finds the group with a first node group that is
\* not available makes no DescribeCacheClusters, GetCallerIdentity or
\* AddTagsToResource call; when the group is available, shows no drift and
\* no call of the tick has failed, the tick returns "cache node status not
\* available" with no endpoint and a nil error.
C7_NoPrematureTagging ==
    (last.op = "create" /\ last.found /\ last.foundCache.ngStatus # "available") =>
        /\ LastIssued("DescribeCacheClusters") = 0
        /\ LastIssued("GetCallerIdentity") = 0
        /\ LastIssued("AddTagsToResource") = 0
        /\ ~last.tagging
        /\ (last.foundCache.status = "available" /\ last.driftChecked
              /\ last.update.isNil /\ LastCallsOk) =>
              /\ last.msg = MsgS("cache node status not available, current status:",
                                 last.foundCache.status)
              /\ last.cluster = NoCluster
              /\ ~last.err

\* C7 witness: a create tick stops at the node group that is not available
C7_Witness ==
    /\ last.op = "create"
    /\ last.found
    /\ last.foundCache.status = "available"
    /\ last.foundCache.ngStatus # "available"
    /\ last.msg.text = "cache node status not available, current status:"

\* C8 as claimed: after a create tick that has found the group, in whatever
\* status, and has returned a nil error, the alert rule of the group exists.
C8_AlertWheneverPresent ==
    (last.op = "create" /\ last.found /\ ~last.err /\ ~last.panic) =>
        last.foundId \in alerts

\* C9: when DeleteReplicationGroup answers with the "replication group not
\* found" code the delete tick returns "delete detected,
\* deleteReplicationGroup started" with a nil error, as it does when the
\* call succeeds; any other failure of the call is returned as an error with
\* the status "failed to delete elasticache cluster".
C9_DeleteRaceTolerance ==
    (last.op = "delete" /\ LastIssued("DeleteReplicationGroup") > 0) =>
        /\ last.deleteAnswer \in {"ok", "notfound"} =>
              /\ last.msg = Msg("delete detected, deleteReplicationGroup started")
              /\ ~last.err
        /\ last.deleteAnswer \in {"awsOther", "nonAws"} =>
              /\ last.msg = Msg("failed to delete elasticache cluster")
              /\ last.err

\* C9 witness: the delete call was answered "not found" and the tick reports
\* the delete as started
C9_Witness ==
    /\ last.op = "delete"
    /\ last.deleteAnswer = "notfound"
    /\ ~last.calls[Len(last.calls)].ok
    /\ last.msg = Msg("delete detected, deleteReplicationGroup started")
    /\ ~last.err

\* C10: the modify request the drift detector has built in a create tick is
\* absent exactly when the desired and the observed node type and snapshot
\* retention are equal; otherwise it carries the identifier of the observed
\* group and sets exactly the fields that differ, to the desired values.
C10_DriftDetector ==
    (last.op = "create" /\ last.driftChecked) =>
        LET typeDiffers == last.ec.CacheNodeType # last.foundCache.nodeType
            retDiffers == last.ec.SnapshotRetentionLimit # last.foundCache.retention
        IN  /\ last.update.isNil <=> (~typeDiffers /\ ~retDiffers)
            /\ ~last.update.isNil =>
                  /\ last.update.ReplicationGroupId = last.foundId
                  /\ last.update.CacheNodeType =
                         IF typeDiffers THEN last.ec.CacheNodeType ELSE Nil
                  /\ last.update.SnapshotRetentionLimit =
                         IF retDiffers THEN last.ec.SnapshotRetentionLimit ELSE NilInt
                  /\ last.ec.CacheNodeType # Nil
                  /\ last.ec.SnapshotRetentionLimit # NilInt

\* C10 witness: only the node type differs and the modify request sets the
\* node type alone
C10_Witness ==
    /\ last.op = "create"
    /\ last.driftChecked
    /\ ~last.update.isNil
    /\ last.update.CacheNodeType = last.ec.CacheNodeType
    /\ last.update.SnapshotRetentionLimit = NilInt
    /\ last.ec.SnapshotRetentionLimit = last.foundCache.retention
    /\ LastIssued("ModifyReplicationGroup") = 1

----------------------------------------------------------------------------
(* Configuration Builder on its own                                        *)

\* strategies in which every field of the create request is either unset or
\* supplied by the operator
SuppliedStrategies ==
    [createId : {Nil, "custom"}, deleteId : {Nil},
     nodeType : {Nil, "cache.m5.large"}, retention : {NilInt, 7},
     engine : {Nil, "memcached"}, engineVersion : {Nil, "5.0.6"},
     description : {Nil, "mine"}, numClusters : {NilInt, 3},
     failover : {Nil, "false"}, finalSnapshot : {Nil}]

\* the fields of the create request the builder looks at
CreateFields ==
    {"ReplicationGroupId", "CacheNodeType", "SnapshotRetentionLimit", "Engine",
     "EngineVersion", "ReplicationGroupDescription", "NumCacheClusters",
     "AutomaticFailoverEnabled"}

\* the *int64 fields among them
IntFields == {"SnapshotRetentionLimit", "NumCacheClusters"}

\* is the field f of the create request cfg unset (a nil pointer)
Unset(cfg, f) == IF f \in IntFields THEN cfg[f] = NilInt ELSE cfg[f] = Nil

BuilderInit ==
    /\ strat \in SuppliedStrategies
    /\ rgs = [id \in Ids |-> NoGroup]
    /\ alerts = {}
    /\ finalizer = FALSE
    /\ phase = "active"
    /\ MetricVecs = [m \in MetricNames |-> Unregistered]
    /\ last = [NoTick EXCEPT !.ec = CreateInput(strat), !.dc = DeleteInput(strat)]
    /\ createCalls = [issued |-> 0, accepted |-> 0]
    /\ gauges = NoGauges
    /\ goroutines = [g \in Goroutines |-> NotRunning]

\* buildElasticacheCreateStrategy applied to the create request of the strategy
BuildCreateStrategy ==
    /\ last.op = "none"
    /\ last' = [last EXCEPT !.op = "build",
                            !.ec = buildElasticacheCreateStrategy(CreateInput(strat))]
    /\ UNCHANGED <<strat, rgs, finalizer, phase, alerts, MetricVecs, createCalls, gauges, goroutines>>

BuilderNext == BuildCreateStrategy

BuilderSpec == BuilderInit /\ [][BuilderNext]_vars

\* C11 as claimed: every field of the create request that the strategy
\* supplies keeps the supplied value after buildElasticacheCreateStrategy.
C11_SuppliedValuesKept ==
    last.op = "build" =>
        \A f \in CreateFields :
            ~Unset(CreateInput(strat), f) => last.ec[f] = CreateInput(strat)[f]

----------------------------------------------------------------------------
(* Create ticks repeated without failures                                  *)

\* the inputs of a create tick none of whose calls fails
NoFaultInputs == {in \in CreateInputs : in.fault = NoFault}

\* create ticks without failures, requeued, while the remote system works
LiveNext ==
    \/ CreateRedisWith(NoFaultInputs)
    \/ Requeue
    \/ \E id \in Ids : RemoteProgress(id)
    \/ \E id \in Ids : NodeGroupAvailable(id)
    \/ \E id \in Ids, n \in Nodes : NodeAvailable(id, n)

\* the reconciler keeps invoking create and requeueing; the remote system
\* finishes what it has started and makes the node group available
LiveSpec ==
    /\ Init
    /\ [][LiveNext]_vars
    /\ WF_vars(CreateRedisWith(NoFaultInputs))
    /\ WF_vars(Requeue)
    /\ WF_vars(\E id \in Ids : RemoteProgress(id))
    /\ WF_vars(\E id \in Ids : NodeGroupAvailable(id))

\* C12: with an unchanged strategy, create ticks repeated without call
\* failures and a remote system that finishes creating or modifying the
\* group and makes its first node group available, a create tick eventually
\* returns the endpoint with "successfully created and tagged" and a nil
\* error.
C12_CreateLiveness ==
    <>(/\ last.op = "create"
       /\ last.cluster = Endpoint(last.foundId)
       /\ last.msg = MsgS("successfully created and tagged, aws elasticache status is",
                          "available")
       /\ ~last.err)

\* C12 witness: the group this operator has created has become available and
\* a create tick returns its endpoint
C12_Witness ==
    /\ last.op = "create"
    /\ createCalls.accepted = 1
    /\ last.cluster = Endpoint(InfraName)
    /\ last.msg.text = "successfully created and tagged, aws elasticache status is"

----------------------------------------------------------------------------
(* SetMetric called by two ticks at once                                   *)

\* the SetMetric calls of one create tick with one pending service update,
\* in order, and the label names of each
TickMetrics ==
    <<defaultRedisMaintenanceMetricName, defaultRedisInfoMetricName,
      defaultRedisAvailMetricName>>
TickLabels ==
    (defaultRedisMaintenanceMetricName :> MaintenanceLabels)
    @@ (defaultRedisInfoMetricName :> InfoLabels)
    @@ (defaultRedisAvailMetricName :> GenericLabels)

\* the metric name of the SetMetric call goroutine g is in
NameOf(g) == TickMetrics[goroutines[g].call]

\* customMetrics.Registry holds a collector of this name: one that is in
\* MetricVecs, or one a goroutine has registered and not yet stored
Registered(name) ==
    \/ MetricVecs[name].registered
    \/ \E g \in Goroutines : goroutines[g].pc = "store" /\ NameOf(g) = name

\* goroutine g returns from its SetMetric call and goes on to the next one
Return(g) ==
    IF goroutines[g].call = Len(TickMetrics)
    THEN [pc |-> "done", call |-> goroutines[g].call]
    ELSE [pc |-> "lookup", call |-> goroutines[g].call + 1]

\* another goroutine is at an access of the MetricVecs map
MapRace(g) ==
    \E h \in Goroutines \ {g} : goroutines[h].pc \in {"lookup", "store"}

\* the process is gone once the runtime has thrown a fatal error
ProcessRuns == \A g \in Goroutines : goroutines[g].pc # "fatal"

ConcInit ==
    /\ strat \in {st \in Strategies : st.nodeType = Nil /\ st.retention = NilInt}
    /\ rgs = [id \in Ids |-> NoGroup]
    /\ alerts = {}
    /\ finalizer = TRUE
    /\ phase = "active"
    /\ MetricVecs = [m \in MetricNames |-> Unregistered]
    /\ last = [NoTick EXCEPT !.ec = CreateInput(strat), !.dc = DeleteInput(strat)]
    /\ createCalls = [issued |-> 0, accepted |-> 0]
    /\ gauges = NoGauges
    /\ goroutines = [g \in Goroutines |-> [pc |-> "lookup", call |-> 1]]

\* gv, ok := MetricVecs[name]
Lookup(g) ==
    /\ ProcessRuns
    /\ goroutines[g].pc = "lookup"
    /\ goroutines' = [goroutines EXCEPT ![g].pc =
                         IF MetricVecs[NameOf(g)].registered THEN "set" ELSE "register"]
    /\ UNCHANGED <<strat, rgs, finalizer, phase, alerts, MetricVecs, last,
                   createCalls, gauges>>

\* gv.With(labels).Set(value); return nil
SetGauge(g) ==
    /\ ProcessRuns
    /\ goroutines[g].pc = "set"
    /\ IF MetricVecs[NameOf(g)].keys = TickLabels[NameOf(g)]
       THEN /\ gauges' = [gauges EXCEPT ![NameOf(g)] = (g :> 1) @@ @]
            /\ goroutines' = [goroutines EXCEPT ![g] = Return(g)]
       ELSE /\ gauges' = gauges
            /\ goroutines' = [goroutines EXCEPT ![g].pc = "panicked"]
    /\ UNCHANGED <<strat, rgs, finalizer, phase, alerts, MetricVecs, last, createCalls>>

\* gv = *prometheus.NewGaugeVec(...); customMetrics.Registry.MustRegister(gv):
\* MustRegister panics when a collector of this name is registered already
MustRegister(g) ==
    /\ ProcessRuns
    /\ goroutines[g].pc = "register"
    /\ goroutines' = [goroutines EXCEPT ![g].pc =
                         IF Registered(NameOf(g)) THEN "panicked" ELSE "store"]
    /\ UNCHANGED <<strat, rgs, finalizer, phase, alerts, MetricVecs, last,
                   createCalls, gauges>>

\* MetricVecs[name] = gv; return nil.  A map write that meets another access
\* of the map is a data race: the runtime may throw "concurrent map writes"
\* (or "concurrent map read and map write"), or the write may go through
StoreVec(g) ==
    /\ ProcessRuns
    /\ goroutines[g].pc = "store"
    /\ \E outcome \in (IF MapRace(g) THEN {"stored", "fatal"} ELSE {"stored"}) :
          IF outcome = "stored"
          THEN /\ MetricVecs' = [MetricVecs EXCEPT ![NameOf(g)] =
                                    [registered |-> TRUE, keys |-> TickLabels[NameOf(g)]]]
               /\ goroutines' = [goroutines EXCEPT ![g] = Return(g)]
          ELSE /\ MetricVecs' = MetricVecs
               /\ goroutines' = [goroutines EXCEPT ![g].pc = "fatal"]
    /\ UNCHANGED <<strat, rgs, finalizer, phase, alerts, last, createCalls, gauges>>

ConcNext ==
    \/ \E g \in Goroutines : Lookup(g)
    \/ \E g \in Goroutines : SetGauge(g)
    \/ \E g \in Goroutines : MustRegister(g)
    \/ \E g \in Goroutines : StoreVec(g)

ConcSpec == ConcInit /\ [][ConcNext]_vars

\* C13 as claimed: whatever the interleaving of the SetMetric calls of two
\* ticks for different identities, no goroutine panics and the runtime
\* throws no fatal error.
C13_NoInterference ==
    \A g \in Goroutines : goroutines[g].pc \notin {"panicked", "fatal"}

----------------------------------------------------------------------------
(* Failures of remote calls                                                *)

\* the calls of the ElastiCache and STS services
RemoteApis ==
    {"DescribeReplicationGroups", "CreateReplicationGroup", "ModifyReplicationGroup",
     "DeleteReplicationGroup", "DescribeCacheClusters", "GetCallerIdentity",
     "AddTagsToResource", "DescribeSnapshots", "DescribeServiceUpdates"}

\* the i-th call of the last tick is a remote call that failed for good: a
\* listing call the poll has repeated with success did not, nor did a delete
\* call answered "replication group not found"
RemoteFailure(i) ==
    /\ last.calls[i].api \in RemoteApis
    /\ ~last.calls[i].ok
    /\ ~(/\ last.calls[i].api = "DescribeReplicationGroups"
         /\ \E j \in (i + 1)..Len(last.calls) :
               last.calls[j].api = "DescribeReplicationGroups" /\ last.calls[j].ok)
    /\ ~(last.calls[i].api = "DeleteReplicationGroup" /\ last.deleteAnswer = "notfound")

\* C14 as claimed: a tick does not panic, and a tick in which a remote call
\* has failed returns a non-nil error with a non-empty status message.
C14_FailuresReturned ==
    last.op \in {"create", "delete"} =>
        /\ ~last.panic
        /\ (\E i \in 1..Len(last.calls) : RemoteFailure(i)) =>
              (last.err /\ last.msg.text # "")

----------------------------------------------------------------------------
(* SetMetric and the gauge values                                          *)

\* the label maps and the values SetMetric is called with: two series of one
\* label name, and a map with another label name
LabelMaps == [{"instanceID"} -> {"a", "b"}] \cup [{"status"} -> {"a"}]
GaugeValues == {0, 1}
GaugeNames == {defaultRedisInfoMetricName, defaultRedisAvailMetricName}

\* SetMetric on the series: only a call that finds the vector in MetricVecs
\* sets the gauge of the labels; the call that registers the vector returns
\* without setting it
SetMetricSeries(mv, series, name, labels, value) ==
    IF SetMetric(mv, name, DOMAIN labels).effect = "set"
    THEN [series EXCEPT ![name] = (labels :> value) @@ @]
    ELSE series

MetricInit ==
    /\ strat \in {st \in Strategies : st.nodeType = Nil /\ st.retention = NilInt}
    /\ rgs = [id \in Ids |-> NoGroup]
    /\ alerts = {}
    /\ finalizer = TRUE
    /\ phase = "active"
    /\ MetricVecs = [m \in MetricNames |-> Unregistered]
    /\ last = [op |-> "none"]
    /\ createCalls = [issued |-> 0, accepted |-> 0]
    /\ gauges = NoGauges
    /\ goroutines = [g \in Goroutines |-> NotRunning]

\* one call of SetMetric(name, labels, value)
CallSetMetric ==
    \E name \in GaugeNames, labels \in LabelMaps, value \in GaugeValues :
        /\ MetricVecs' = SetMetric(MetricVecs, name, DOMAIN labels).mv
        /\ gauges' = SetMetricSeries(MetricVecs, gauges, name, labels, value)
        /\ last' = [op |-> "SetMetric", name |-> name, labels |-> labels,
                    value |-> value,
                    effect |-> SetMetric(MetricVecs, name, DOMAIN labels).effect]
        /\ UNCHANGED <<strat, rgs, finalizer, phase, alerts, createCalls, goroutines>>

\* the loop of StartGaugeVector: Reset on every vector in MetricVecs
ResetGauges ==
    /\ gauges' = NoGauges
    /\ last' = [op |-> "Reset"]
    /\ UNCHANGED <<strat, rgs, finalizer, phase, alerts, MetricVecs, createCalls,
                   goroutines>>

MetricNext == CallSetMetric \/ ResetGauges

MetricSpec == MetricInit /\ [][MetricNext]_vars

\* C15 as claimed: after a call SetMetric(name, labels, value) that returns
\* nil, the first call for the name included, the gauge of (name, labels)
\* holds value.
C15_SetMetricUpserts ==
    (last.op = "SetMetric" /\ last.effect # "panic") =>
        /\ last.labels \in DOMAIN gauges[last.name]
        /\ gauges[last.name][last.labels] = last.value

----------------------------------------------------------------------------
(* Finalizer, alert rules and metrics within a tick                        *)

\* the last tick has issued a call of this API that failed
LastFailed(api) ==
    \E i \in 1..Len(last.calls) : last.calls[i].api = api /\ ~last.calls[i].ok

\* C16: a delete tick whose update of the CR (the persisting of the
\* finalizer removal) fails returns a non-nil error with a non-empty status
\* message and the CR keeps the finalizer it had; a delete tick returns the
\* empty status with a nil error only after an update of the CR that
\* succeeded, and the finalizer is gone then.
C16_FinalizerPersistence ==
    last.op = "delete" =>
        /\ LastFailed("Client.Update") =>
              /\ last.err
              /\ last.msg.text # ""
              /\ finalizer = last.hadFinalizer
        /\ (last.msg = StatusEmpty /\ ~last.err /\ ~last.panic) =>
              /\ Succeeded(last.calls, "Client.Update") = 1
              /\ ~LastFailed("Client.Update")
              /\ ~last.found
              /\ ~finalizer

\* C16 witness: the group is absent, the update of the CR fails and the tick
\* returns an error, the finalizer still on the CR
C16_Witness ==
    /\ last.op = "delete"
    /\ last.listed /\ ~last.found
    /\ LastFailed("Client.Update")
    /\ last.err
    /\ finalizer

\* C17 as claimed: when a create tick issues CreateReplicationGroup for an
\* identifier, the alert rule of that identifier exists already: it existed
\* before the tick or the tick has created it earlier.
C17_AlertBeforeCreate ==
    last.op = "create" =>
        \A j \in 1..Len(last.calls) :
            last.calls[j].api = "CreateReplicationGroup" =>
                \/ last.calls[j].id \in last.alertsBefore
                \/ \E i \in 1..(j - 1) :
                      /\ last.calls[i].api = "Client.Create"
                      /\ last.calls[i].id = last.calls[j].id

\* C18: a delete tick that issues DeleteReplicationGroup has looked the alert
\* rule of the found group up and deleted it, both with success, earlier in
\* the tick, so the rule existed before the tick and is gone after it; a
\* delete tick whose lookup or deletion of the rule fails (the lookup fails
\* when the rule does not exist) returns "failed to delete elasticache alert"
\* with an error and issues no DeleteReplicationGroup call.
C18_AlertDeletedBeforeDelete ==
    last.op = "delete" =>
        /\ \A j \in 1..Len(last.calls) :
              last.calls[j].api = "DeleteReplicationGroup" =>
                  /\ \E i \in 1..(j - 1) :
                        /\ last.calls[i].api = "Client.Delete"
                        /\ last.calls[i].id = last.foundId
                        /\ last.calls[i].ok
                        /\ \E h \in 1..(i - 1) :
                              /\ last.calls[h].api = "Client.Get"
                              /\ last.calls[h].id = last.foundId
                              /\ last.calls[h].ok
                  /\ last.foundId \in last.alertsBefore
                  /\ last.foundId \notin alerts
        /\ (LastFailed("Client.Get") \/ LastFailed("Client.Delete")) =>
              /\ last.err
              /\ last.msg = Msg("failed to delete elasticache alert")
              /\ LastIssued("DeleteReplicationGroup") = 0
        /\ (LastIssued("Client.Get") > 0 /\ last.foundId \notin last.alertsBefore) =>
              LastFailed("Client.Get")

\* C18 witness: a delete tick has deleted the alert rule of the available
\* group and has then issued the delete call
C18_Witness ==
    /\ last.op = "delete"
    /\ last.foundCache.status = "available"
    /\ last.foundId \in last.alertsBefore
    /\ last.foundId \notin alerts
    /\ Succeeded(last.calls, "Client.Delete") = 1
    /\ LastIssued("DeleteReplicationGroup") = 1
    /\ last.calls[Len(last.calls)].api = "DeleteReplicationGroup"

\* the last tick has called SetMetric for the info and the availability
\* metrics (exposeRedisMetrics)
LastRefreshedMetrics ==
    /\ \E i \in 1..Len(last.calls) :
          /\ last.calls[i].api = "SetMetric"
          /\ last.calls[i].id = defaultRedisInfoMetricName
          /\ last.calls[i].ok
    /\ \E i \in 1..Len(last.calls) :
          /\ last.calls[i].api = "SetMetric"
          /\ last.calls[i].id = defaultRedisAvailMetricName
          /\ last.calls[i].ok

\* C19 as claimed: a create tick that returns the endpoint with
\* "successfully created and tagged" and a delete tick that returns the
\* empty status with a nil error have refreshed the info and availability
\* metrics earlier in the tick.
C19_MetricsBeforeTerminal ==
    /\ (last.op = "create" /\ last.cluster # NoCluster) => LastRefreshedMetrics
    /\ (last.op = "delete" /\ last.msg = StatusEmpty /\ ~last.err /\ ~last.panic) =>
          LastRefreshedMetrics

\* C20: a create tick that finds the group in a status other than available
\* only sets the finalizer, reads its configuration and credentials, lists
\* the groups, builds the create request and refreshes the maintenance,
\* info and availability metrics: it issues no CreateReplicationGroup,
\* ModifyReplicationGroup, AddTagsToResource or alert rule call, leaves the
\* remote groups and the alert rules as they were and returns no endpoint;
\* when none of its calls has failed it returns "createReplicationGroup() in
\* progress" with the observed status and a nil error.
C20_CreateInProgress ==
    (last.op = "create" /\ last.found /\ last.foundCache.status # "available") =>
        /\ \A i \in 1..Len(last.calls) :
              last.calls[i].api \in
                  {"CreateFinalizer", "ReadStorageStrategy",
                   "ReconcileProviderCredentials", "DescribeReplicationGroups",
                   "BuildInfraNameFromObject", "GetClusterID",
                   "DescribeServiceUpdates", "SetMetric"}
        /\ LastIssued("CreateReplicationGroup") = 0
        /\ LastIssued("ModifyReplicationGroup") = 0
        /\ LastIssued("AddTagsToResource") = 0
        /\ last.cluster = NoCluster
        /\ rgs = last.before
        /\ alerts = last.alertsBefore
        /\ LastCallsOk =>
              /\ last.msg = MsgS("createReplicationGroup() in progress, current aws elasticache status is",
                                 last.foundCache.status)
              /\ ~last.err
              /\ LastRefreshedMetrics

\* C20 witness: a create tick finds the group in status modifying and reports
\* the create in progress
C20_Witness ==
    /\ last.op = "create"
    /\ last.found
    /\ last.foundCache.status = "modifying"
    /\ last.msg = MsgS("createReplicationGroup() in progress, current aws elasticache status is",
                       "modifying")
    /\ ~last.err
    /\ rgs = last.before

----------------------------------------------------------------------------
(* One corrective action per tick, the scanner, cancellation               *)

\* the remote calls that correct the remote state
CorrectiveApis ==
    {"CreateReplicationGroup", "ModifyReplicationGroup", "AddTagsToResource",
     "DeleteReplicationGroup"}

\* C21: a tick issues calls of at most one of CreateReplicationGroup,
\* ModifyReplicationGroup, AddTagsToResource and DeleteReplicationGroup, and
\* at most one call of the three that are not tag calls; a tick that issues
\* a modify call issues no tag call and returns no endpoint.
C21_SingleCorrectiveAction ==
    last.op \in {"create", "delete"} =>
        /\ Cardinality({api \in CorrectiveApis : LastIssued(api) > 0}) <= 1
        /\ LastIssued("CreateReplicationGroup") + LastIssued("ModifyReplicationGroup")
              + LastIssued("DeleteReplicationGroup") <= 1
        /\ LastIssued("ModifyReplicationGroup") > 0 =>
              /\ LastIssued("AddTagsToResource") = 0
              /\ LastIssued("DescribeCacheClusters") = 0
              /\ last.cluster = NoCluster

\* C21 witness: a create tick finds drift on a group whose node group and
\* first cache node are available, issues the modify call and tags nothing
C21_Witness ==
    /\ last.op = "create"
    /\ LastIssued("ModifyReplicationGroup") = 1
    /\ last.foundCache.ngStatus = "available"
    /\ last.foundCache.nodes[1] = "available"
    /\ LastIssued("AddTagsToResource") = 0
    /\ last.cluster = NoCluster

\* the positions of the listing calls among the calls of the last tick
LastListings ==
    {i \in 1..Len(last.calls) : last.calls[i].api = "DescribeReplicationGroups"}

----------------------------------------------------------------------------
(* Cancellation of the caller's context                                    *)

\* the calls that are given the ctx of the tick: the Kubernetes client
\* calls and the helpers built on them. The ElastiCache and STS calls are
\* made without it (cacheSvc.DescribeReplicationGroups, not its WithContext
\* form), and so are wait.PollImmediate and SetMetric
CtxApis ==
    {"CreateFinalizer", "ReadStorageStrategy", "ReconcileProviderCredentials",
     "BuildInfraNameFromObject", "buildTimestampedInfraNameFromObject",
     "GetClusterID", "Client.Create", "Client.Get", "Client.Delete",
     "Client.Update"}

\* the places where a call that is given the ctx fails
CtxFaultSites ==
    {"finalizer", "config", "creds", "infraName", "timestampedName",
     "clusterID1", "clusterID2", "clusterID3", "clusterIDTag", "alertCreate",
     "alertGet", "alertDelete", "update"}

\* the ticks in which nothing fails but what a cancelled ctx makes fail
CancelInputs(inputs) ==
    {in \in inputs : in.fault = NoFault \/ in.fault.at \in CtxFaultSites}

\* the calls during which the ctx can have been cancelled in the tick with
\* the calls calls: every later call that is given the ctx has failed. 0 is
\* a tick whose ctx is not cancelled, in which no call fails
CancelPoints(calls, in) ==
    {k \in 1..Len(calls) :
        \A i \in (k + 1)..Len(calls) : calls[i].api \in CtxApis => ~calls[i].ok}
    \cup (IF in.fault = NoFault THEN {0} ELSE {})

\* a create tick whose ctx may be cancelled during one of its calls
CreateRedisCancelled ==
    /\ phase = "active"
    /\ last.op = "none"
    /\ \E in \in CancelInputs(CreateInputs) : \E c \in {CreateRedisRun(in)} :
       \E k \in CancelPoints(c.calls, in) :
          /\ rgs' = c.rgs
          /\ alerts' = c.alerts
          /\ MetricVecs' = c.mv
          /\ finalizer' = c.finalizer
          /\ last' = [TickRecord("create", c) EXCEPT !.cancelAt = k]
          /\ createCalls' =
                 [issued |-> Count(createCalls.issued,
                                   Issued(c.calls, "CreateReplicationGroup")),
                  accepted |-> Count(createCalls.accepted,
                                     Succeeded(c.calls, "CreateReplicationGroup"))]
    /\ UNCHANGED <<strat, phase, gauges, goroutines>>

\* a delete tick whose ctx may be cancelled during one of its calls
DeleteRedisCancelled ==
    /\ phase = "terminating"
    /\ last.op = "none"
    /\ \E in \in CancelInputs(DeleteInputs) : \E c \in {DeleteRedisRun(in)} :
       \E k \in CancelPoints(c.calls, in) :
          /\ rgs' = c.rgs
          /\ alerts' = c.alerts
          /\ MetricVecs' = c.mv
          /\ finalizer' = c.finalizer
          /\ last' = [TickRecord("delete", c) EXCEPT !.cancelAt = k]
    /\ UNCHANGED <<strat, phase, createCalls, gauges, goroutines>>

CancelNext ==
    \/ CreateRedisCancelled
    \/ DeleteRedisCancelled
    \/ Requeue
    \/ \E id \in Ids : RemoteProgress(id)
    \/ \E id \in Ids : NodeGroupAvailable(id)
    \/ \E id \in Ids, n \in Nodes : NodeAvailable(id, n)
    \/ MarkDeleted
    \/ Collect

CancelSpec == Init /\ [][CancelNext]_vars

\* what the claim names as steps: the remote listing, the remote mutations,
\* the tag call, the alert rule changes and the finalizer update
CancellableSteps ==
    {"DescribeReplicationGroups", "CreateReplicationGroup",
     "ModifyReplicationGroup", "DeleteReplicationGroup", "AddTagsToResource",
     "Client.Create", "Client.Delete", "Client.Update"}

\* C23: in a tick whose ctx is cancelled during one of its calls, no remote
\* listing, remote mutation, tag call, alert rule change or finalizer update
\* is issued after that call
C23_NoStepAfterCancel ==
    (last.op \in {"create", "delete"} /\ last.cancelAt > 0) =>
        \A i \in (last.cancelAt + 1)..Len(last.calls) :
            last.calls[i].api \notin CancellableSteps

----------------------------------------------------------------------------
(* Delete ticks repeated against a remote that first rejects the delete    *)

\* the inputs of a delete tick in which nothing fails
NoFaultDeleteInputs == {in \in DeleteInputs : in.fault = NoFault}

\* the inputs of a delete tick in which at most the DeleteReplicationGroup
\* call fails, with an error other than ReplicationGroupNotFoundFault
RejectedDeleteInputs ==
    {in \in DeleteInputs :
        in.fault = NoFault \/ in.fault.at \in {"deleteAwsOther", "deleteNonAws"}}

\* create ticks without failures, then delete ticks whose delete call the
\* remote may reject, requeued, while the remote system works
DeleteLiveNext ==
    \/ CreateRedisWith(NoFaultInputs)
    \/ DeleteRedisWith(RejectedDeleteInputs)
    \/ Requeue
    \/ \E id \in Ids : RemoteProgress(id)
    \/ \E id \in Ids : NodeGroupAvailable(id)
    \/ \E id \in Ids, n \in Nodes : NodeAvailable(id, n)
    \/ MarkDeleted
    \/ Collect

\* the reconciler keeps invoking delete and requeueing, the remote accepts
\* the delete call again and again (it rejects it only finitely often in a
\* row) and finishes the deletions it has started
DeleteLiveSpec ==
    /\ Init
    /\ [][DeleteLiveNext]_vars
    /\ SF_vars(DeleteRedisWith(NoFaultDeleteInputs))
    /\ WF_vars(Requeue)
    /\ WF_vars(\E id \in Ids : RemoteProgress(id))

\* a delete tick has deleted the alert rule of the group it found and its
\* DeleteReplicationGroup call has failed with an error other than "group
\* not found"
DeleteRejected ==
    /\ last.op = "delete"
    /\ last.found
    /\ \E i \in 1..Len(last.calls) :
          last.calls[i].api = "Client.Delete" /\ last.calls[i].ok
    /\ last.deleteAnswer \in {"awsOther", "nonAws"}
    /\ last.err

\* C24: after a delete tick that has deleted the alert rule and whose
\* DeleteReplicationGroup call has failed with another error than "group not
\* found", with delete ticks repeated and a remote that accepts the delete
\* call, the group eventually becomes absent and the finalizer is removed
C24_DeleteLiveness ==
    DeleteRejected ~> (~rgs[InfraName].present /\ ~finalizer)

----------------------------------------------------------------------------
(* Strategy blobs that set the identifier                                  *)

\* the strategies of the tier in which the create blob and the delete blob
\* each set the replication group identifier or leave it unset
IdStrategies ==
    [createId : {Nil} \cup CustomIds, deleteId : {Nil} \cup CustomIds,
     nodeType : {Nil}, retention : {NilInt},
     engine : {Nil}, engineVersion : {Nil}, description : {Nil},
     numClusters : {NilInt}, failover : {Nil}, finalSnapshot : {Nil}]

\* a new CR whose tier has one of these strategies; no group exists yet
IdInit ==
    /\ strat \in IdStrategies
    /\ rgs = [id \in Ids |-> NoGroup]
    /\ alerts = {}
    /\ finalizer = FALSE
    /\ phase = "active"
    /\ MetricVecs = [m \in MetricNames |-> Unregistered]
    /\ last = [NoTick EXCEPT !.ec = CreateInput(strat), !.dc = DeleteInput(strat)]
    /\ createCalls = [issued |-> 0, accepted |-> 0]
    /\ gauges = NoGauges
    /\ goroutines = [g \in Goroutines |-> NotRunning]

\* create ticks without failures, delete ticks, and the remote system
IdNext ==
    \/ CreateRedisWith(NoFaultInputs)
    \/ DeleteRedis
    \/ Requeue
    \/ \E id \in Ids : RemoteProgress(id)
    \/ \E id \in Ids : NodeGroupAvailable(id)
    \/ \E id \in Ids, n \in Nodes : NodeAvailable(id, n)
    \/ MarkDeleted
    \/ Collect

IdSpec == IdInit /\ [][IdNext]_vars

\* the identifiers of the DeleteReplicationGroup requests of the tick in last
LastDeleteTargets ==
    {last.calls[i].id : i \in {j \in 1..Len(last.calls) :
                                  last.calls[j].api = "DeleteReplicationGroup"}}

\* C25: a delete tick that issues DeleteReplicationGroup asks for the group
\* whose identifier it has looked up in the listing, the identifier of the
\* create config, whichever of the two blobs set the identifier; and no
\* delete tick compares the listing with an unset identifier
C25_DeleteTargetsLookup ==
    last.op = "delete" =>
        /\ LastDeleteTargets \subseteq {last.ec.ReplicationGroupId}
        /\ LastDeleteTargets # {} => (last.found /\ last.foundId \in LastDeleteTargets)
        /\ ~last.panic

----------------------------------------------------------------------------
(* The finalizer and provisioning                                          *)

\* C26: the first call of a create tick is CreateFinalizer and every other
\* call of the tick, so every remote call, comes after its success; a tick
\* that issues CreateReplicationGroup has set the finalizer, which the CR
\* carries when the tick returns; when CreateFinalizer fails the tick
\* returns "failed to set finalizer" with the error, makes no other call and
\* changes neither the remote groups, the alert rules nor the finalizer
C26_FinalizerBeforeProvisioning ==
    last.op = "create" =>
        /\ Len(last.calls) >= 1
        /\ last.calls[1].api = "CreateFinalizer"
        /\ \A i \in 2..Len(last.calls) :
              last.calls[1].ok /\ last.calls[i].api # "CreateFinalizer"
        /\ last.calls[1].ok => finalizer
        /\ LastIssued("CreateReplicationGroup") > 0 => (last.calls[1].ok /\ finalizer)
        /\ ~last.calls[1].ok =>
              /\ last.msg = Msg("failed to set finalizer")
              /\ last.err
              /\ last.cluster = NoCluster
              /\ \A api \in RemoteApis : LastIssued(api) = 0
              /\ rgs = last.before
              /\ alerts = last.alertsBefore
              /\ finalizer = last.hadFinalizer

\* C26 witness: the first create tick of a CR without finalizer sets the
\* finalizer and then issues CreateReplicationGroup
C26_Witness ==
    /\ last.op = "create"
    /\ ~last.hadFinalizer
    /\ finalizer
    /\ \E i \in 2..Len(last.calls) :
          last.calls[i].api = "CreateReplicationGroup" /\ last.calls[i].ok

\* C26 witness of the failure: CreateFinalizer has failed for a CR without
\* finalizer and the tick has returned
C26_WitnessFailed ==
    /\ last.op = "create"
    /\ ~last.calls[1].ok
    /\ ~last.hadFinalizer
    /\ ~finalizer

====
